---- MODULE Spec2Model ----
(***************************************************************************)
(* Coroutine-driven message bus of experiments/core/src/lib.rs:            *)
(* the MessageBus registry (endpoints, subscriptions), the Command         *)
(* protocol yielded by handler coroutines, and the TaskRunner task stack   *)
(* with its step/run loop.                                                 *)
(*                                                                         *)
(* Strings that are searched (topics, patterns) are sequences of           *)
(* one-character strings, so that str::contains is a computed substring    *)
(* search.  A HashMap is a sequence of entries in its iteration order; the *)
(* position a new key takes in that order is not determined by the         *)
(* program (RandomState), so an insertion of a new key may put it at any   *)
(* position.                                                               *)
(***************************************************************************)
EXTENDS Integers, Sequences, FiniteSets, TLC

VARIABLES
    endpoints,      \* MessageBus.endpoints : HashMap<String, Subscription>
    subscriptions,  \* MessageBus.subscriptions : HashMap<Subscription, String>, in iteration order
    tasks,          \* TaskRunner.tasks : Vec<Task>, last element is the top
    trace,          \* the Rc<RefCell<Vec<TraceEvent>>> the instrumented handlers write
    pc,             \* position of the embedder: "idle", "running" (inside run()), "returned"
    nextTid,        \* history: number the next task created in this run gets
    lastOp,         \* history: per topic, the last register/deregister applied to it
    lastSub,        \* history: per (topic, handler_id), the last subscription passed to subscribe
    rt              \* position and pre-state of the register/deregister round trip

vars == <<endpoints, subscriptions, tasks, trace, pc, nextTid, lastOp, lastSub, rt>>

-----------------------------------------------------------------------------
(* Topics, patterns and messages *)

TA == <<"a">>
TB == <<"b">>
TC == <<"c">>
TBC == <<"b", "c">>

TD == <<"d">>
TE == <<"e">>

Topics == {TA, TB, TC}
(* the topics of test_tree_structure: topic_a .. topic_e *)
TreeTopics == {TA, TB, TC, TD, TE}
Patterns == {<<"a">>, <<"b">>, <<"c">>}
(* messages are opaque shared values; handlers send the messages 1 and 2 *)
NumMsgs == 2
Msgs == 1..NumMsgs

(* Subscription { actor_fn, handler_id, topic, priority } *)
Sub(t, h, p, f) == [topic |-> t, handler_id |-> h, priority |-> p, actor_fn |-> f]

NoSub == Sub(<<>>, "", 0, "")

eA == Sub(TA, "A", 0, "A")
eR == Sub(TA, "R", 0, "R")
eB == Sub(TB, "B", 0, "B")
eU == Sub(TB, "U", 0, "U")
eC == Sub(TC, "C", 0, "C")

pB == Sub(TBC, "h1", 0, "B")
pBv == Sub(TBC, "h1", 1, "C")
pU == Sub(TBC, "h2", 2, "U")
pC == Sub(TB, "h2", 0, "C")

EndpointSubs == {eA, eR, eB, eU, eC}

(* the handlers of test_tree_structure: A -> (B, C), B -> (D, E) *)
treeA == Sub(TA, "A", 0, "TreeA")
treeB == Sub(TB, "B", 0, "TreeB")
treeC == Sub(TC, "C", 0, "TreeC")
treeD == Sub(TD, "D", 0, "TreeD")
treeE == Sub(TE, "E", 0, "TreeE")

TreeSubs == {treeA, treeB, treeC, treeD, treeE}
PubSubs == {pB, pBv, pU, pC}

Key(s) == <<s.topic, s.handler_id>>
Keys == {Key(s) : s \in PubSubs}

-----------------------------------------------------------------------------
(* Command *)

Send(t, m) == [cmd |-> "Send", topic |-> t, msg |-> m]
Publish(p, m) == [cmd |-> "Publish", pattern |-> p, msg |-> m]
Register(s) == [cmd |-> "Register", sub |-> s]
Deregister(t) == [cmd |-> "Deregister", topic |-> t]
Subscribe(s) == [cmd |-> "Subscribe", sub |-> s]
Unsubscribe(t, h) == [cmd |-> "Unsubscribe", topic |-> t, handler_id |-> h]

(* The commands an actor_fn's coroutine yields, in source order.  The     *)
(* Send/Publish relation between the handlers is acyclic: A and R are     *)
(* started by the embedder only, B and U by A, R or a Publish, C by any   *)
(* of them, and C yields nothing.                                         *)
Program(f) ==
    CASE f = "A" -> <<Send(TB, 2)>>
      [] f = "R" -> <<Register(eC), Send(TC, 2), Deregister(TC),
                      Subscribe(pC), Publish(TB, 2), Publish(TA, 1)>>
      [] f = "B" -> <<Send(TC, 1)>>
      [] f = "U" -> <<Unsubscribe(TBC, "h2"), Deregister(TB), Subscribe(pC)>>
      [] f = "C" -> <<>>
      [] f = "TreeA" -> <<Send(TB, 1), Send(TC, 2)>>
      [] f = "TreeB" -> <<Send(TD, 1), Send(TE, 2)>>
      [] f \in {"TreeC", "TreeD", "TreeE"} -> <<>>

(* the id create_actor_handler gives the handler, written to the trace *)
HandlerId(f) ==
    CASE f = "TreeA" -> "A"
      [] f = "TreeB" -> "B"
      [] f = "TreeC" -> "C"
      [] f = "TreeD" -> "D"
      [] f = "TreeE" -> "E"
      [] OTHER -> f

-----------------------------------------------------------------------------
(* Pure helpers *)

(* mutant: whole-string equality instead of containment *)
contains_exact(hay, needle) == hay = needle

(* str::contains: a window of the haystack equals the needle *)
contains(hay, needle) ==
    \E i \in 1..(Len(hay) + 1) :
        /\ i + Len(needle) - 1 <= Len(hay)
        /\ SubSeq(hay, i, i + Len(needle) - 1) = needle

(* mutant: a derived equality over all the fields *)
SubEq_all(s1, s2) == s1 = s2

(* impl PartialEq for Subscription *)
SubEq(s1, s2) == s1.topic = s2.topic /\ s1.handler_id = s2.handler_id

InsertAt(seq, p, e) == SubSeq(seq, 1, p - 1) \o <<e>> \o SubSeq(seq, p, Len(seq))

-----------------------------------------------------------------------------
(* MessageBus *)

(* mutant: entry(topic).or_insert(subscription), the first endpoint stays *)
register_keep_first(eps, s) ==
    IF s.topic \in DOMAIN eps
    THEN eps
    ELSE [t \in (DOMAIN eps) \cup {s.topic} |-> IF t = s.topic THEN s ELSE eps[t]]

(* MessageBus::register: HashMap::insert(topic, subscription) replaces the value *)
register(eps, s) ==
    [t \in (DOMAIN eps) \cup {s.topic} |-> IF t = s.topic THEN s ELSE eps[t]]

(* mutant: removes nothing *)
deregister_noop(eps, t) == eps

(* mutant: HashMap::clear instead of remove *)
deregister_clear(eps, t) == [u \in {} |-> NoSub]

(* MessageBus::deregister: HashMap::remove(topic) *)
deregister(eps, t) ==
    [u \in (DOMAIN eps) \ {t} |-> eps[u]]

(* MessageBus::subscribe: HashMap::insert(subscription, topic).  When an equal *)
(* key is present, insert updates the value and keeps the stored key; a new   *)
(* key lands anywhere in the iteration order.  The set of possible results.   *)
subscribe(subs, s) ==
    IF \E i \in 1..Len(subs) : SubEq(subs[i][1], s)
    THEN {[i \in 1..Len(subs) |->
              IF SubEq(subs[i][1], s) THEN <<subs[i][1], s.topic>> ELSE subs[i]]}
    ELSE {InsertAt(subs, p, <<s, s.topic>>) : p \in 1..(Len(subs) + 1)}

(* mutant: the key compares the topic only, every handler of the topic goes *)
remove_subscription_topic(subs, topic, handler_id) ==
    SelectSeq(subs, LAMBDA e : e[1].topic # topic)

(* MessageBus::remove_subscription: HashMap::remove(&key) with a dummy key *)
remove_subscription(subs, topic, handler_id) ==
    LET key == Sub(topic, handler_id, 0, "dummy")
    IN  SelectSeq(subs, LAMBDA e : ~SubEq(e[1], key))

-----------------------------------------------------------------------------
(* Tasks *)

(* (sub.actor_fn)(): a fresh coroutine, not yet resumed *)
actor_fn(s) == [fn |-> s.actor_fn, pc |-> 0]

(* SendTask::new *)
SendTask_new(pattern, coro, msg) ==
    [kind |-> "Send", pattern |-> pattern, coro |-> coro, msg |-> msg]

(* mutant: the cursor starts at 1 *)
PublishTask_new_one(pattern, msg) ==
    [kind |-> "Publish", pattern |-> pattern, msg |-> msg, idx |-> 1,
     emitted |-> <<>>, dirty |-> FALSE,
     stable |-> {subscriptions[i][1] : i \in 1..Len(subscriptions)}]

(* PublishTask::new; emitted, dirty and stable are history fields: the      *)
(* subscriptions this task has started a coroutine for, whether the        *)
(* subscription set changed while it was on the stack, and the             *)
(* subscriptions stored without interruption since it was created          *)
PublishTask_new(pattern, msg) ==
    [kind |-> "Publish", pattern |-> pattern, msg |-> msg, idx |-> 0,
     emitted |-> <<>>, dirty |-> FALSE,
     stable |-> {subscriptions[i][1] : i \in 1..Len(subscriptions)}]

(* history fields of a task: its number, who created it, for whom, and     *)
(* whether the last registry command it yielded changed the registry       *)
Tag(task, tid, by, parent) ==
    [tid |-> tid, by |-> by, parent |-> parent, effect |-> "none"] @@ task

Event(ev, task) ==
    [ev |-> ev, id |-> HandlerId(task.coro.fn), tid |-> task.tid, by |-> task.by,
     parent |-> task.parent, msg |-> task.msg]

(* mutant: the commands are yielded last first *)
resume_reverse(send) ==
    LET prog == Program(send.coro.fn)
        enter == IF send.coro.pc = 0 THEN <<Event("Enter", send)>> ELSE <<>>
    IN  IF send.coro.pc < Len(prog)
        THEN [state |-> "Yielded",
              cmd |-> prog[Len(prog) - send.coro.pc],
              task |-> [send EXCEPT !.coro.pc = @ + 1],
              events |-> enter]
        ELSE [state |-> "Complete",
              cmd |-> [cmd |-> "none"],
              task |-> send,
              events |-> enter \o <<Event("Exit", send)>>]

(* mutant: the coroutine is resumed twice, the first command is discarded *)
resume_twice(send) ==
    LET prog == Program(send.coro.fn)
        enter == IF send.coro.pc = 0 THEN <<Event("Enter", send)>> ELSE <<>>
    IN  IF send.coro.pc + 1 < Len(prog)
        THEN [state |-> "Yielded",
              cmd |-> prog[send.coro.pc + 2],
              task |-> [send EXCEPT !.coro.pc = @ + 2],
              events |-> enter]
        ELSE [state |-> "Complete",
              cmd |-> [cmd |-> "none"],
              task |-> send,
              events |-> enter \o <<Event("Exit", send)>>]

(* SendTask::resume on the instrumented coroutine of create_actor_handler: *)
(* Enter on the first resume, then one yielded command per resume, then    *)
(* Exit and completion                                                     *)
resume(send) ==
    LET prog == Program(send.coro.fn)
        enter == IF send.coro.pc = 0 THEN <<Event("Enter", send)>> ELSE <<>>
    IN  IF send.coro.pc < Len(prog)
        THEN [state |-> "Yielded",
              cmd |-> prog[send.coro.pc + 1],
              task |-> [send EXCEPT !.coro.pc = @ + 1],
              events |-> enter]
        ELSE [state |-> "Complete",
              cmd |-> [cmd |-> "none"],
              task |-> send,
              events |-> enter \o <<Event("Exit", send)>>]

(* mutant: the filter is dropped, every subscription matches *)
matching_all(subs, pattern) == subs

(* the entries of subscriptions whose value contains the pattern, in order *)
matching(subs, pattern) ==
    SelectSeq(subs, LAMBDA e : contains(e[2], pattern))

(* PublishTask::next_task *)
next_task(publish, subs) ==
    LET m == matching(subs, publish.pattern)
    IN  IF publish.idx + 1 <= Len(m)
        THEN LET sub == m[publish.idx + 1][1]
             IN  [some |-> TRUE,
                  publish |-> [publish EXCEPT !.idx = @ + 1,
                                              !.emitted = Append(@, sub)],
                  send |-> SendTask_new(publish.pattern, actor_fn(sub), publish.msg)]
        ELSE [some |-> FALSE, publish |-> publish, send |-> <<>>]

(* mutant: a queue instead of a stack, the new task goes to the bottom *)
push_front(ts, task) == <<task>> \o ts

(* TaskRunner::push *)
push(ts, task) == Append(ts, task)

(* mutant: removes the bottom task instead of the top one *)
pop_front(ts) == Tail(ts)

(* TaskRunner::pop / Vec::pop *)
pop(ts) == SubSeq(ts, 1, Len(ts) - 1)

-----------------------------------------------------------------------------
(* TaskRunner::step *)

(* mutant: the callee's task is put under the sender's task *)
dispatch_send_below(ts, eps, topic, msg, tid, parent) ==
    IF topic \in DOMAIN eps
    THEN InsertAt(ts, Len(ts),
                  Tag(SendTask_new(topic, actor_fn(eps[topic]), msg), tid, "send", parent))
    ELSE ts

(* mutant: a Send to a missing endpoint drops the sender *)
dispatch_send_or_pop(ts, eps, topic, msg, tid, parent) ==
    IF topic \in DOMAIN eps
    THEN push(ts, Tag(SendTask_new(topic, actor_fn(eps[topic]), msg), tid, "send", parent))
    ELSE pop(ts)

(* mutant: the callee is given the sender's own message *)
dispatch_send_own_msg(ts, eps, topic, msg, tid, parent) ==
    IF topic \in DOMAIN eps
    THEN push(ts, Tag(SendTask_new(topic, actor_fn(eps[topic]), ts[Len(ts)].msg),
                      tid, "send", parent))
    ELSE ts

(* Command::Send: look the topic up in endpoints; push a SendTask running a *)
(* fresh coroutine of the endpoint, or do nothing when there is none        *)
dispatch_send(ts, eps, topic, msg, tid, parent) ==
    IF topic \in DOMAIN eps
    THEN push(ts, Tag(SendTask_new(topic, actor_fn(eps[topic]), msg), tid, "send", parent))
    ELSE ts

(* mutant: the PublishTask is queued at the bottom of the stack *)
dispatch_publish_bottom(ts, pattern, msg, tid, parent) ==
    InsertAt(ts, 1, Tag(PublishTask_new(pattern, msg), tid, "publish_cmd", parent))

(* Command::Publish: push a PublishTask *)
dispatch_publish(ts, pattern, msg, tid, parent) ==
    push(ts, Tag(PublishTask_new(pattern, msg), tid, "publish_cmd", parent))

(* history: every PublishTask on the stack saw the subscription set change *)
MarkDirty(ts, changed) ==
    [i \in 1..Len(ts) |->
        IF changed /\ ts[i].kind = "Publish" THEN [ts[i] EXCEPT !.dirty = TRUE] ELSE ts[i]]

(* history: a PublishTask's stable subscriptions are those still stored *)
KeepStable(ts, subs) ==
    [i \in 1..Len(ts) |->
        IF ts[i].kind = "Publish"
        THEN [ts[i] EXCEPT !.stable = @ \cap {subs[j][1] : j \in 1..Len(subs)}]
        ELSE ts[i]]

(* history: the top task's registry command changed the registry, or not *)
Effect(ts, changed) ==
    [ts EXCEPT ![Len(ts)].effect = IF changed THEN "changed" ELSE "same"]

(* history: the last operation on a topic; replaced tells that the register *)
(* displaced a different endpoint                                         *)
Registered(s, eps) ==
    [op |-> "register", sub |-> s,
     replaced |-> (s.topic \in DOMAIN eps) /\ eps[s.topic] # s]
Deregistered == [op |-> "deregister", sub |-> NoSub, replaced |-> FALSE]
NoOp == [op |-> "none", sub |-> NoSub, replaced |-> FALSE]

(* mutant: only Send is interpreted, the other commands are dropped *)
Interpret_send_only(cmd, ts, top) ==
    IF cmd.cmd = "Send"
    THEN /\ tasks' = dispatch_send(ts, endpoints, cmd.topic, cmd.msg, nextTid, top.tid)
         /\ nextTid' = nextTid + 1
         /\ UNCHANGED <<endpoints, subscriptions, lastOp, lastSub>>
    ELSE /\ tasks' = ts
         /\ UNCHANGED <<endpoints, subscriptions, nextTid, lastOp, lastSub>>

(* the match on the yielded command; ts is the stack after the resume *)
Interpret(cmd, ts, top) ==
    CASE cmd.cmd = "Send" ->
            /\ tasks' = dispatch_send(ts, endpoints, cmd.topic, cmd.msg, nextTid, top.tid)
            /\ nextTid' = nextTid + 1
            /\ UNCHANGED <<endpoints, subscriptions, lastOp, lastSub>>
      [] cmd.cmd = "Publish" ->
            /\ tasks' = dispatch_publish(ts, cmd.pattern, cmd.msg, nextTid, top.tid)
            /\ nextTid' = nextTid + 1
            /\ UNCHANGED <<endpoints, subscriptions, lastOp, lastSub>>
      [] cmd.cmd = "Register" ->
            /\ endpoints' = register(endpoints, cmd.sub)
            /\ lastOp' = [lastOp EXCEPT ![cmd.sub.topic] = Registered(cmd.sub, endpoints)]
            /\ tasks' = Effect(ts, endpoints' # endpoints)
            /\ UNCHANGED <<subscriptions, nextTid, lastSub>>
      [] cmd.cmd = "Deregister" ->
            /\ endpoints' = deregister(endpoints, cmd.topic)
            /\ lastOp' = [lastOp EXCEPT ![cmd.topic] = Deregistered]
            /\ tasks' = Effect(ts, endpoints' # endpoints)
            /\ UNCHANGED <<subscriptions, nextTid, lastSub>>
      [] cmd.cmd = "Subscribe" ->
            /\ subscriptions' \in subscribe(subscriptions, cmd.sub)
            /\ lastSub' = [lastSub EXCEPT ![Key(cmd.sub)] = cmd.sub]
            /\ tasks' = Effect(KeepStable(MarkDirty(ts, subscriptions' # subscriptions),
                                          subscriptions'),
                               subscriptions' # subscriptions)
            /\ UNCHANGED <<endpoints, nextTid, lastOp>>
      [] cmd.cmd = "Unsubscribe" ->
            /\ subscriptions' = remove_subscription(subscriptions, cmd.topic, cmd.handler_id)
            /\ lastSub' = [k \in Keys |->
                              IF k = <<cmd.topic, cmd.handler_id>> THEN NoSub ELSE lastSub[k]]
            /\ tasks' = Effect(KeepStable(MarkDirty(ts, subscriptions' # subscriptions),
                                          subscriptions'),
                               subscriptions' # subscriptions)
            /\ UNCHANGED <<endpoints, nextTid, lastOp>>

(* mutant: a task whose endpoint is gone is cancelled instead of resumed *)
StepSend_cancelling(top) ==
    LET r == resume(top)
        resumed == [tasks EXCEPT ![Len(tasks)] = r.task]
    IN  IF top.by = "send" /\ top.pattern \notin DOMAIN endpoints
        THEN /\ tasks' = pop(tasks)
             /\ UNCHANGED <<endpoints, subscriptions, trace, nextTid, lastOp, lastSub>>
        ELSE /\ trace' = trace \o r.events
             /\ IF r.state = "Yielded"
                THEN Interpret(r.cmd, resumed, top)
                ELSE /\ tasks' = pop(resumed)
                     /\ UNCHANGED <<endpoints, subscriptions, nextTid, lastOp, lastSub>>

(* Some(Task::Send(send)): resume the coroutine once *)
StepSend(top) ==
    LET r == resume(top)
        resumed == [tasks EXCEPT ![Len(tasks)] = r.task]
    IN  /\ trace' = trace \o r.events
        /\ IF r.state = "Yielded"
           THEN Interpret(r.cmd, resumed, top)
           ELSE /\ tasks' = pop(resumed)
                /\ UNCHANGED <<endpoints, subscriptions, nextTid, lastOp, lastSub>>

(* Some(Task::Publish(publish)): push the next subscriber's task, or pop *)
StepPublish(top) ==
    LET n == next_task(top, subscriptions)
        advanced == [tasks EXCEPT ![Len(tasks)] = n.publish]
    IN  /\ IF n.some
           THEN /\ tasks' = push(advanced, Tag(n.send, nextTid, "publish", top.tid))
                /\ nextTid' = nextTid + 1
           ELSE /\ tasks' = pop(advanced)
                /\ UNCHANGED nextTid
        /\ UNCHANGED <<endpoints, subscriptions, trace, lastOp, lastSub>>

(* TaskRunner::step: the match on tasks.last_mut(); None => {} *)
step ==
    IF tasks = <<>>
    THEN UNCHANGED <<endpoints, subscriptions, tasks, trace, nextTid, lastOp, lastSub>>
    ELSE LET top == tasks[Len(tasks)]
         IN  IF top.kind = "Send" THEN StepSend(top) ELSE StepPublish(top)

(* one iteration of the loop of TaskRunner::run *)
Step ==
    /\ pc = "running"
    /\ tasks # <<>>
    /\ step
    /\ UNCHANGED <<pc, rt>>

(* runner.step() called by the embedder outside run(): the stack is empty *)
CallStep ==
    /\ pc # "running"
    /\ step
    /\ UNCHANGED <<pc, rt>>

(* mutant: while self.tasks.len() > 1, the loop leaves the last task *)
RunReturn_early ==
    /\ pc = "running"
    /\ Len(tasks) <= 1
    /\ pc' = "returned"
    /\ UNCHANGED <<endpoints, subscriptions, tasks, trace, nextTid, lastOp, lastSub, rt>>

(* TaskRunner::run returns when the stack is empty *)
RunReturn ==
    /\ pc = "running"
    /\ tasks = <<>>
    /\ pc' = "returned"
    /\ UNCHANGED <<endpoints, subscriptions, tasks, trace, nextTid, lastOp, lastSub, rt>>

-----------------------------------------------------------------------------
(* The embedder: registry calls between runs, then push and run.  Each     *)
(* scenario of the tests starts from a fresh trace.                        *)

FreshTrace == trace' = <<>> /\ nextTid' = 1

CallRegister(s) ==
    /\ pc # "running"
    /\ endpoints' = register(endpoints, s)
    /\ lastOp' = [lastOp EXCEPT ![s.topic] = Registered(s, endpoints)]
    /\ pc' = "idle"
    /\ FreshTrace
    /\ UNCHANGED <<subscriptions, tasks, lastSub, rt>>

(* mutant: deregister also drops the subscriptions of the topic *)
CallDeregister_both(t) ==
    /\ pc # "running"
    /\ endpoints' = deregister(endpoints, t)
    /\ subscriptions' = SelectSeq(subscriptions, LAMBDA e : e[2] # t)
    /\ lastOp' = [lastOp EXCEPT ![t] = Deregistered]
    /\ pc' = "idle"
    /\ FreshTrace
    /\ UNCHANGED <<tasks, lastSub, rt>>

CallDeregister(t) ==
    /\ pc # "running"
    /\ endpoints' = deregister(endpoints, t)
    /\ lastOp' = [lastOp EXCEPT ![t] = Deregistered]
    /\ pc' = "idle"
    /\ FreshTrace
    /\ UNCHANGED <<subscriptions, tasks, lastSub, rt>>

CallSubscribe(s) ==
    /\ pc # "running"
    /\ subscriptions' \in subscribe(subscriptions, s)
    /\ lastSub' = [lastSub EXCEPT ![Key(s)] = s]
    /\ pc' = "idle"
    /\ FreshTrace
    /\ UNCHANGED <<endpoints, tasks, lastOp, rt>>

CallRemoveSubscription(k) ==
    /\ pc # "running"
    /\ subscriptions' = remove_subscription(subscriptions, k[1], k[2])
    /\ lastSub' = [lastSub EXCEPT ![k] = NoSub]
    /\ pc' = "idle"
    /\ FreshTrace
    /\ UNCHANGED <<endpoints, tasks, lastOp, rt>>

(* runner.push(Task::Send(SendTask::new(topic, (endpoints[topic].actor_fn)(), msg))); runner.run() *)
PushSend(t, m) ==
    /\ pc # "running"
    /\ t \in DOMAIN endpoints
    /\ tasks' = push(tasks, Tag(SendTask_new(t, actor_fn(endpoints[t]), m), 1, "embedder", 0))
    /\ trace' = <<>>
    /\ nextTid' = 2
    /\ pc' = "running"
    /\ UNCHANGED <<endpoints, subscriptions, lastOp, lastSub, rt>>

(* runner.push(Task::Publish(PublishTask::new(pattern, msg))); runner.run() *)
PushPublish(p, m) ==
    /\ pc # "running"
    /\ tasks' = push(tasks, Tag(PublishTask_new(p, m), 1, "embedder", 0))
    /\ trace' = <<>>
    /\ nextTid' = 2
    /\ pc' = "running"
    /\ UNCHANGED <<endpoints, subscriptions, lastOp, lastSub, rt>>

-----------------------------------------------------------------------------
(* TaskRunner::new: empty stack, empty registry *)

NoRoundTrip == [pc |-> "off", pre |-> <<>>, sub |-> NoSub]

Init ==
    /\ endpoints = <<>>
    /\ subscriptions = <<>>
    /\ tasks = <<>>
    /\ trace = <<>>
    /\ pc = "idle"
    /\ nextTid = 1
    /\ lastOp = [t \in TreeTopics |-> NoOp]
    /\ lastSub = [k \in Keys |-> NoSub]
    /\ rt = NoRoundTrip

Next ==
    \/ \E s \in EndpointSubs : CallRegister(s)
    \/ \E t \in Topics : CallDeregister(t)
    \/ \E s \in PubSubs : CallSubscribe(s)
    \/ \E k \in Keys : CallRemoveSubscription(k)
    \/ \E t \in Topics, m \in Msgs : PushSend(t, m)
    \/ \E p \in Patterns, m \in Msgs : PushPublish(p, m)
    \/ Step
    \/ CallStep
    \/ RunReturn

Spec == Init /\ [][Next]_vars

(* run() is a sequential loop: once entered, the thread keeps calling step *)
(* while the stack is not empty and returns when it is                     *)
(* The embedder builds the registry with register and subscribe alone,     *)
(* which reach every endpoints map and every subscriptions map.            *)
NextFair ==
    \/ \E s \in EndpointSubs : CallRegister(s)
    \/ \E s \in PubSubs : CallSubscribe(s)
    \/ \E t \in Topics, m \in Msgs : PushSend(t, m)
    \/ \E p \in Patterns, m \in Msgs : PushPublish(p, m)
    \/ Step
    \/ RunReturn

SpecFair == Init /\ [][NextFair]_vars /\ WF_vars(Step) /\ WF_vars(RunReturn)

(* The embedder of test_tree_structure: registers the handlers A .. E, *)
(* pushes a SendTask for a registered topic and runs.                  *)
NextTree ==
    \/ \E s \in TreeSubs : CallRegister(s)
    \/ \E t \in TreeTopics : CallDeregister(t)
    \/ \E t \in TreeTopics, m \in Msgs : PushSend(t, m)
    \/ Step
    \/ RunReturn

SpecTree == Init /\ [][NextTree]_vars

-----------------------------------------------------------------------------
(* The round trip register(s); deregister(s.topic) applied to every        *)
(* endpoints map the register/deregister calls can build.                  *)

RoundTripRegister(s) ==
    /\ pc = "idle"
    /\ rt.pc = "off"
    /\ rt' = [pc |-> "registered", pre |-> endpoints, sub |-> s]
    /\ endpoints' = register(endpoints, s)
    /\ lastOp' = [lastOp EXCEPT ![s.topic] = Registered(s, endpoints)]
    /\ UNCHANGED <<subscriptions, tasks, trace, pc, nextTid, lastSub>>

RoundTripDeregister ==
    /\ rt.pc = "registered"
    /\ rt' = [rt EXCEPT !.pc = "done"]
    /\ endpoints' = deregister(endpoints, rt.sub.topic)
    /\ lastOp' = [lastOp EXCEPT ![rt.sub.topic] = Deregistered]
    /\ UNCHANGED <<subscriptions, tasks, trace, pc, nextTid, lastSub>>

NextRT ==
    \/ \E s \in EndpointSubs : rt.pc = "off" /\ CallRegister(s)
    \/ \E t \in Topics : rt.pc = "off" /\ CallDeregister(t)
    \/ \E s \in EndpointSubs : RoundTripRegister(s)
    \/ RoundTripDeregister

SpecRT == Init /\ [][NextRT]_vars

-----------------------------------------------------------------------------
(* The round trip subscribe(s); remove_subscription(s.topic, s.handler_id) *)
(* applied to every subscriptions map the subscribe/remove_subscription    *)
(* calls can build.                                                        *)

RoundTripSubscribe(s) ==
    /\ pc = "idle"
    /\ rt.pc = "off"
    /\ rt' = [pc |-> "subscribed", pre |-> subscriptions, sub |-> s]
    /\ subscriptions' \in subscribe(subscriptions, s)
    /\ lastSub' = [lastSub EXCEPT ![Key(s)] = s]
    /\ UNCHANGED <<endpoints, tasks, trace, pc, nextTid, lastOp>>

RoundTripUnsubscribe ==
    /\ rt.pc = "subscribed"
    /\ rt' = [rt EXCEPT !.pc = "done"]
    /\ subscriptions' = remove_subscription(subscriptions, rt.sub.topic, rt.sub.handler_id)
    /\ lastSub' = [lastSub EXCEPT ![Key(rt.sub)] = NoSub]
    /\ UNCHANGED <<endpoints, tasks, trace, pc, nextTid, lastOp>>

NextRS ==
    \/ \E s \in PubSubs : rt.pc = "off" /\ CallSubscribe(s)
    \/ \E k \in Keys : rt.pc = "off" /\ CallRemoveSubscription(k)
    \/ \E s \in PubSubs : RoundTripSubscribe(s)
    \/ RoundTripUnsubscribe

SpecRS == Init /\ [][NextRS]_vars

-----------------------------------------------------------------------------
(* Reading the trace and the stack *)

(* TraceEvent::Enter(id) / TraceEvent::Exit(id), without the history fields *)
TraceIds == [i \in 1..Len(trace) |-> <<trace[i].ev, trace[i].id>>]

RECURSIVE wf_scan(_, _)
wf_scan(tr, stack) ==
    IF tr = <<>>
    THEN [ok |-> TRUE, stack |-> stack]
    ELSE IF Head(tr)[1] = "Enter"
         THEN wf_scan(Tail(tr), Append(stack, Head(tr)[2]))
         ELSE IF stack # <<>> /\ stack[Len(stack)] = Head(tr)[2]
              THEN wf_scan(Tail(tr), SubSeq(stack, 1, Len(stack) - 1))
              ELSE [ok |-> FALSE, stack |-> stack]

(* is_well_formed of the property tests *)
is_well_formed(tr) ==
    LET r == wf_scan(tr, <<>>) IN r.ok /\ r.stack = <<>>

IsEnter(i, tid) == trace[i].ev = "Enter" /\ trace[i].tid = tid
IsExit(i, tid) == trace[i].ev = "Exit" /\ trace[i].tid = tid

HasTop == tasks # <<>>
Top == tasks[Len(tasks)]

ChainTrace ==
    <<<<"Enter", "A">>, <<"Enter", "B">>, <<"Enter", "C">>,
      <<"Exit", "C">>, <<"Exit", "B">>, <<"Exit", "A">>>>

-----------------------------------------------------------------------------
(* C1 *)

(* the task a Send created lies directly above the task of its sender *)
C1_StackOrder ==
    \A p \in 1..Len(tasks) :
        tasks[p].by = "send" =>
            /\ p > 1
            /\ tasks[p - 1].kind = "Send"
            /\ tasks[p - 1].tid = tasks[p].parent

(* Enter(A) < Enter(B) < Exit(B) < Exit(A) for every B a Send of A started *)
C1_TraceOrder ==
    \A j \in 1..Len(trace) :
        (trace[j].ev = "Enter" /\ trace[j].by = "send") =>
            /\ \E i \in 1..(j - 1) : IsEnter(i, trace[j].parent)
            /\ \A k \in 1..Len(trace) :
                  IsExit(k, trace[j].parent) =>
                      \E l \in (j + 1)..(k - 1) : IsExit(l, trace[j].tid)
            /\ (pc = "returned") =>
                  \E l \in (j + 1)..Len(trace) : IsExit(l, trace[j].tid)

(* with B the endpoint of b and an endpoint on c, the run from A is the chain *)
C1_Chain ==
    ( /\ pc = "returned"
      /\ trace # <<>>
      /\ trace[1].id = "A"
      /\ TB \in DOMAIN endpoints
      /\ endpoints[TB] = eB
      /\ TC \in DOMAIN endpoints ) => TraceIds = ChainTrace

(* a step resumes no task but the top one, and only the top one writes the trace *)
C1_OnlyTopResumes ==
    /\ \A p \in 1..Len(tasks) :
          ( /\ p <= Len(tasks')
            /\ tasks[p].kind = "Send"
            /\ tasks'[p].tid = tasks[p].tid
            /\ tasks'[p].coro # tasks[p].coro ) => p = Len(tasks)
    /\ (pc = "running" /\ pc' = "running" /\ trace' # trace) =>
          /\ HasTop
          /\ \A i \in (Len(trace) + 1)..Len(trace') : trace'[i].tid = Top.tid

\* C1: depth-first Send. The SendTask a yielded Send creates is pushed directly
\* above the sender's task, the sender is not resumed while anything lies above
\* it, every pair satisfies Enter(A) < Enter(B) < Exit(B) < Exit(A), and the
\* chain A -> B -> C gives exactly Enter A, Enter B, Enter C, Exit C, Exit B, Exit A.
C1_DepthFirstSend ==
    /\ [](C1_StackOrder /\ C1_TraceOrder /\ C1_Chain)
    /\ [][C1_OnlyTopResumes]_vars

C1_Witness ==
    /\ pc = "returned"
    /\ TraceIds = ChainTrace
    /\ trace[2].by = "send"
    /\ trace[3].parent = trace[2].tid

-----------------------------------------------------------------------------
(* C2 *)

(* the handlers entered and not yet exited are the started tasks of the stack *)
StartedOnStack ==
    LET started == SelectSeq(tasks, LAMBDA t : t.kind = "Send" /\ t.coro.pc > 0)
    IN  [i \in 1..Len(started) |-> started[i].coro.fn]

\* C2: trace well-formedness. At every moment of a run the trace is a prefix of
\* a balanced word whose unmatched Enters are the started handlers on the stack,
\* and when the stack is empty (run() returns) the trace is balanced
\* (is_well_formed).
C2_TraceWellFormed ==
    LET r == wf_scan(TraceIds, <<>>)
    IN  /\ r.ok
        /\ (pc = "running") => r.stack = StartedOnStack
        /\ (tasks = <<>>) => is_well_formed(TraceIds)

C2_Witness ==
    /\ pc = "returned"
    /\ Len(trace) >= 8
    /\ is_well_formed(TraceIds)
    /\ \E i \in 1..Len(trace) : trace[i].by = "publish"
    /\ \E i \in 1..Len(trace) : trace[i].by = "send"

-----------------------------------------------------------------------------
(* C3 *)

Children(ptid) ==
    {q \in 1..Len(tasks) : tasks[q].by = "publish" /\ tasks[q].parent = ptid}

(* at most one SendTask of a PublishTask is on the stack, directly above it *)
C3_OneChild ==
    \A p \in 1..Len(tasks) :
        /\ (tasks[p].kind = "Publish") => Cardinality(Children(tasks[p].tid)) <= 1
        /\ (tasks[p].by = "publish") =>
              /\ p > 1
              /\ tasks[p - 1].kind = "Publish"
              /\ tasks[p - 1].tid = tasks[p].parent

(* the subtree of one subscriber is over before the next subscriber enters *)
C3_NoInterleave ==
    \A i, j \in 1..Len(trace) :
        ( /\ i < j
          /\ trace[i].ev = "Enter" /\ trace[i].by = "publish"
          /\ trace[j].ev = "Enter" /\ trace[j].by = "publish"
          /\ trace[i].parent = trace[j].parent ) =>
            \E l \in (i + 1)..(j - 1) : IsExit(l, trace[i].tid)

(* a PublishTask's cursor moves only while it is the top of the stack *)
C3_AdvanceOnTop ==
    \A p \in 1..Len(tasks) :
        ( /\ p <= Len(tasks')
          /\ tasks[p].kind = "Publish"
          /\ tasks'[p].kind = "Publish"
          /\ tasks'[p].tid = tasks[p].tid
          /\ tasks'[p].idx # tasks[p].idx ) => p = Len(tasks)

\* C3: Publish delivers the subscribers one at a time. The SendTask of the
\* idx-th subscriber and everything it spawns are popped before the PublishTask
\* is stepped again, and two SendTasks of one PublishTask are never on the stack
\* together.
C3_PublishOneAtATime ==
    /\ [](C3_OneChild /\ C3_NoInterleave)
    /\ [][C3_AdvanceOnTop]_vars

C3_Witness ==
    /\ HasTop
    /\ Top.kind = "Publish"
    /\ Top.idx = 2
    /\ Len(trace) >= 6
    /\ \E i \in 1..Len(trace) : trace[i].by = "send"

-----------------------------------------------------------------------------
(* C4 *)

(* p occurs in t: t is some prefix, then p, then some suffix *)
IsSubstring(p, t) ==
    \E a \in 0..Len(t) :
        /\ a + Len(p) <= Len(t)
        /\ \A i \in 1..Len(p) : t[a + i] = p[i]

StoredSubs == {subscriptions[i][1] : i \in 1..Len(subscriptions)}

Expected(pattern) == {s \in StoredSubs : IsSubstring(pattern, s.topic)}

Exhausted(publish) == ~next_task(publish, subscriptions).some

StartedFor(ptid) ==
    {i \in 1..Len(trace) : trace[i].ev = "Enter" /\ trace[i].by = "publish"
                            /\ trace[i].parent = ptid}

\* C4: fan-out delivery set. While no handler has changed the subscription set
\* during a PublishTask, the subscriptions it started a coroutine for are
\* distinct and all contain the pattern as a substring of their topic; when it
\* is exhausted they are exactly the stored subscriptions whose topic contains
\* the pattern, each started once, so a subscription removed before the Publish
\* gets nothing.
C4_FanOutSet ==
    \A p \in 1..Len(tasks) :
        (tasks[p].kind = "Publish" /\ ~tasks[p].dirty) =>
            LET P == tasks[p]
                got == {P.emitted[i] : i \in 1..Len(P.emitted)}
            IN  /\ Cardinality(got) = Len(P.emitted)
                /\ got \subseteq Expected(P.pattern)
                /\ P.idx = Len(P.emitted)
                /\ (p = Len(tasks)) =>
                      /\ Cardinality(StartedFor(P.tid)) = Len(P.emitted)
                      /\ {trace[i].id : i \in StartedFor(P.tid)}
                            = {s.actor_fn : s \in got}
                /\ (p = Len(tasks) /\ Exhausted(P)) => got = Expected(P.pattern)

C4_Witness ==
    /\ HasTop
    /\ Top.kind = "Publish"
    /\ ~Top.dirty
    /\ Exhausted(Top)
    /\ Len(Top.emitted) = 2
    /\ \E i \in 1..2 : Top.emitted[i].topic # Top.pattern
    /\ Cardinality(StartedFor(Top.tid)) = 2

-----------------------------------------------------------------------------
(* C5 *)

\* C5: Subscribe is last-writer-wins. The subscription the registry retains for
\* a (topic, handler_id) is the last one passed to subscribe for it, and a
\* Publish runs the coroutine of that last one's actor_fn.
C5_SubscribeLastWriterWins ==
    /\ \A i \in 1..Len(subscriptions) :
          subscriptions[i][1] = lastSub[Key(subscriptions[i][1])]
    /\ \A p \in 1..Len(tasks) :
          (tasks[p].kind = "Publish" /\ ~tasks[p].dirty) =>
              \A i \in 1..Len(tasks[p].emitted) :
                  tasks[p].emitted[i].actor_fn
                      = lastSub[Key(tasks[p].emitted[i])].actor_fn

-----------------------------------------------------------------------------
(* C6 *)

C6_Registry ==
    \A t \in Topics :
        (lastOp[t].op = "register") =>
            /\ t \in DOMAIN endpoints
            /\ endpoints[t] = lastOp[t].sub

(* the task a yielded Send pushes runs the last registered endpoint's handler *)
C6_SendRunsLast ==
    ( /\ Len(tasks') = Len(tasks) + 1
      /\ tasks'[Len(tasks')].by = "send" ) =>
        LET new == tasks'[Len(tasks')]
        IN  /\ lastOp[new.pattern].op = "register"
            /\ new.coro = [fn |-> lastOp[new.pattern].sub.actor_fn, pc |-> 0]

\* C6: Register is last-writer-wins. The endpoint of a topic is the subscription
\* of the last register on it, whatever its handler_id, and a yielded Send to the
\* topic starts that subscription's handler.
C6_RegisterLastWriterWins ==
    /\ []C6_Registry
    /\ [][C6_SendRunsLast]_vars

C6_Witness ==
    /\ HasTop
    /\ Top.by = "send"
    /\ Top.coro.pc = 0
    /\ lastOp[Top.pattern].replaced
    /\ Top.coro.fn = lastOp[Top.pattern].sub.actor_fn
    /\ lastOp[Top.pattern].sub.handler_id = "U"

-----------------------------------------------------------------------------
(* C7 *)

(* the top SendTask is about to yield a Send to a topic without endpoint *)
SendsToMissing ==
    /\ pc = "running"
    /\ HasTop
    /\ Top.kind = "Send"
    /\ Top.coro.pc < Len(Program(Top.coro.fn))
    /\ LET cmd == Program(Top.coro.fn)[Top.coro.pc + 1]
       IN  cmd.cmd = "Send" /\ cmd.topic \notin DOMAIN endpoints

C7_Dropped ==
    SendsToMissing =>
        /\ tasks' = [tasks EXCEPT ![Len(tasks)].coro.pc = @ + 1]
        /\ endpoints' = endpoints
        /\ subscriptions' = subscriptions
        /\ pc' = "running"
        /\ \A i \in 1..Len(trace') :
              i > Len(trace) => (trace'[i].ev = "Enter" /\ trace'[i].tid = Top.tid)

(* inside run() there is always a next step or the return *)
C7_NoStall == (pc = "running") => ENABLED (Step \/ RunReturn)

\* C7: a Send to a topic without endpoint is dropped. The step pushes no task,
\* starts no handler, leaves endpoints and subscriptions as they were and leaves
\* the sender's SendTask on top, and the run goes on.
C7_SendToMissingDropped ==
    /\ [][C7_Dropped]_vars
    /\ []C7_NoStall

C7_Witness ==
    /\ pc = "returned"
    /\ TraceIds = <<<<"Enter", "A">>, <<"Exit", "A">>>>
    /\ TB \notin DOMAIN endpoints

-----------------------------------------------------------------------------
(* C8 *)

\* C8: for every topic t, endpoints has an entry for t iff the last register or
\* deregister on t, called directly or yielded by a handler, was a register.
C8_EndpointIffLastRegister ==
    \A t \in Topics : (t \in DOMAIN endpoints) <=> (lastOp[t].op = "register")

C8_Witness ==
    /\ pc = "returned"
    /\ trace # <<>>
    /\ trace[1].id = "R"
    /\ \E i \in 1..Len(trace) : trace[i].id = "C" /\ trace[i].by = "send"
    /\ lastOp[TC].op = "deregister"
    /\ TC \notin DOMAIN endpoints
    /\ lastOp[TA].op = "register"

-----------------------------------------------------------------------------
(* C9 *)

LiveKeys == {k \in Keys : lastSub[k] # NoSub}

\* C9: subscription identity. subscriptions holds at most one entry per
\* (topic, handler_id), priority and actor_fn playing no part, and its keys are
\* exactly the pairs subscribed and not removed since, so equal topics with
\* different handler_ids are distinct entries.
C9_SubscriptionIdentity ==
    /\ \A i, j \in 1..Len(subscriptions) :
          (i # j) => Key(subscriptions[i][1]) # Key(subscriptions[j][1])
    /\ {Key(subscriptions[i][1]) : i \in 1..Len(subscriptions)} = LiveKeys
    /\ \A i \in 1..Len(subscriptions) :
          subscriptions[i][2] = subscriptions[i][1].topic

C9_Witness ==
    /\ Len(subscriptions) = 2
    /\ subscriptions[1][1].topic = subscriptions[2][1].topic
    /\ subscriptions[1][1].handler_id # subscriptions[2][1].handler_id
    /\ \E i \in 1..2 :
          /\ lastSub[Key(subscriptions[i][1])] # subscriptions[i][1]
          /\ lastSub[Key(subscriptions[i][1])].priority # subscriptions[i][1].priority

-----------------------------------------------------------------------------
(* C10 *)

\* C10 as stated: Register(s) then Deregister(s.topic) leaves endpoints as it
\* was before the Register, in every registry state.
C10_RoundTripAnyState ==
    (rt.pc = "done") => endpoints = rt.pre

\* C10: Register(s) then Deregister(s.topic) leaves every other topic's entry
\* as it was and leaves s.topic without endpoint; endpoints is unchanged from
\* before the Register exactly when s.topic had no endpoint then.
C10_RoundTrip ==
    (rt.pc = "done") =>
        /\ DOMAIN endpoints = (DOMAIN rt.pre) \ {rt.sub.topic}
        /\ \A u \in DOMAIN endpoints : endpoints[u] = rt.pre[u]
        /\ (endpoints = rt.pre) <=> (rt.sub.topic \notin DOMAIN rt.pre)

C10_Witness ==
    /\ rt.pc = "done"
    /\ rt.sub.topic \notin DOMAIN rt.pre
    /\ DOMAIN rt.pre # {}
    /\ endpoints = rt.pre

-----------------------------------------------------------------------------
(* C11 *)

Entries(subs) == {subs[i] : i \in 1..Len(subs)}

HasKey(subs, s) == \E e \in Entries(subs) : Key(e[1]) = Key(s)

\* C11 as stated: Subscribe(s) then Unsubscribe((s.topic, s.handler_id))
\* leaves subscriptions as it was before the Subscribe, in every registry
\* state.
C11_RoundTripAnyState ==
    (rt.pc = "done") => Entries(subscriptions) = Entries(rt.pre)

\* C11: Subscribe(s) then Unsubscribe((s.topic, s.handler_id)) leaves every
\* entry of another (topic, handler_id) as it was, same-topic entries of other
\* handlers included, and leaves no entry for the pair of s; subscriptions is
\* unchanged from before the Subscribe exactly when it held no entry for that
\* pair then.
C11_RoundTrip ==
    (rt.pc = "done") =>
        /\ Entries(subscriptions) = {e \in Entries(rt.pre) : Key(e[1]) # Key(rt.sub)}
        /\ Len(subscriptions) = Cardinality(Entries(subscriptions))
        /\ (Entries(subscriptions) = Entries(rt.pre)) <=> ~HasKey(rt.pre, rt.sub)

C11_Witness ==
    /\ rt.pc = "done"
    /\ ~HasKey(rt.pre, rt.sub)
    /\ \E e \in Entries(rt.pre) : e[1].topic = rt.sub.topic
    /\ Len(rt.pre) = 2
    /\ subscriptions = rt.pre

-----------------------------------------------------------------------------
(* C12 *)

(* run() returns from a state with an empty stack, and leaves it empty *)
C12_ReturnsOnEmpty ==
    (pc = "running" /\ pc' # "running") => (tasks = <<>> /\ tasks' = <<>>)

\* C12: termination of run(). With handlers that yield finitely many commands
\* and an acyclic Send/Publish relation, every run() that has been entered
\* reaches the empty stack and returns, and it returns only when the stack is
\* empty.
C12_RunTerminates ==
    /\ (pc = "running") ~> (pc = "returned" /\ tasks = <<>>)
    /\ [][C12_ReturnsOnEmpty]_vars
    /\ [](pc # "running" => tasks = <<>>)

C12_Witness ==
    /\ pc = "returned"
    /\ tasks = <<>>
    /\ Len(trace) >= 10
    /\ \E i \in 1..Len(trace) : trace[i].by = "publish"

-----------------------------------------------------------------------------
(* C13 *)

NoCmd == [cmd |-> "none"]

(* the command a SendTask's coroutine yields at its next resume, the one it *)
(* yielded last, and the one before that                                    *)
NextCmd(t) ==
    IF t.coro.pc < Len(Program(t.coro.fn)) THEN Program(t.coro.fn)[t.coro.pc + 1] ELSE NoCmd
LastCmd(t) ==
    IF t.coro.pc >= 1 THEN Program(t.coro.fn)[t.coro.pc] ELSE NoCmd
CmdBeforeLast(t) ==
    IF t.coro.pc >= 2 THEN Program(t.coro.fn)[t.coro.pc - 1] ELSE NoCmd

EntersBy(by, parent) ==
    {i \in 1..Len(trace) : trace[i].ev = "Enter" /\ trace[i].by = by
                            /\ trace[i].parent = parent}

(* the step that interprets a Send right after a Register of its topic *)
(* pushes a fresh coroutine of the registered handler with the message *)
C13_SendSeesRegister ==
    ( /\ pc = "running" /\ HasTop /\ Top.kind = "Send"
      /\ LastCmd(Top).cmd = "Register" /\ NextCmd(Top).cmd = "Send"
      /\ NextCmd(Top).topic = LastCmd(Top).sub.topic ) =>
        /\ Len(tasks') = Len(tasks) + 1
        /\ tasks'[Len(tasks')].kind = "Send"
        /\ tasks'[Len(tasks')].coro = [fn |-> LastCmd(Top).sub.actor_fn, pc |-> 0]
        /\ tasks'[Len(tasks')].msg = NextCmd(Top).msg
        /\ tasks'[Len(tasks')].parent = Top.tid
        /\ tasks'[Len(tasks')].by = "send"

(* while the sender waits after that Send, the registered handler has been *)
(* started at most once, and once its task is off the stack exactly once,  *)
(* with the message of the Send                                            *)
C13_StartedOnce ==
    \A p \in 1..Len(tasks) :
        LET S == tasks[p] IN
        ( /\ S.kind = "Send"
          /\ CmdBeforeLast(S).cmd = "Register" /\ LastCmd(S).cmd = "Send"
          /\ LastCmd(S).topic = CmdBeforeLast(S).sub.topic ) =>
            LET kids == EntersBy("send", S.tid)
                waiting == /\ p < Len(tasks)
                           /\ tasks[p + 1].parent = S.tid
                           /\ tasks[p + 1].coro.pc = 0
            IN  /\ Cardinality(kids) = IF waiting THEN 0 ELSE 1
                /\ \A i \in kids :
                      /\ trace[i].id = CmdBeforeLast(S).sub.actor_fn
                      /\ trace[i].msg = LastCmd(S).msg

(* a PublishTask pushed right after a Subscribe that added a matching entry *)
(* delivers to that subscription, once, with the message of the Publish     *)
C13_PublishSeesSubscribe ==
    \A p \in 1..Len(tasks) :
        LET S == tasks[p] IN
        ( /\ S.kind = "Send" /\ S.effect = "changed"
          /\ CmdBeforeLast(S).cmd = "Subscribe" /\ LastCmd(S).cmd = "Publish"
          /\ IsSubstring(LastCmd(S).pattern, CmdBeforeLast(S).sub.topic)
          /\ p + 1 = Len(tasks) /\ tasks[p + 1].kind = "Publish"
          /\ ~tasks[p + 1].dirty /\ Exhausted(tasks[p + 1]) ) =>
            LET P == tasks[p + 1]
                hits == {i \in 1..Len(P.emitted) : P.emitted[i] = CmdBeforeLast(S).sub}
                kids == {i \in EntersBy("publish", P.tid) :
                            trace[i].id = CmdBeforeLast(S).sub.actor_fn}
            IN  /\ Cardinality(hits) = 1
                /\ Cardinality(kids) >= 1
                /\ \A i \in kids : trace[i].msg = LastCmd(S).msg

-----------------------------------------------------------------------------
(* C14 *)

(* a task without its history fields *)
Body(t) ==
    IF t.kind = "Send"
    THEN [kind |-> "Send", pattern |-> t.pattern, coro |-> t.coro, msg |-> t.msg, tid |-> t.tid]
    ELSE [kind |-> "Publish", pattern |-> t.pattern, idx |-> t.idx, msg |-> t.msg, tid |-> t.tid]

(* the endpoint or subscription the task's coroutine was created from is no *)
(* longer in the registry                                                   *)
OriginGone(t) ==
    \/ /\ t.by \in {"send", "embedder"}
       /\ \/ t.pattern \notin DOMAIN endpoints
          \/ endpoints[t.pattern].actor_fn # t.coro.fn
    \/ /\ t.by = "publish"
       /\ ~\E e \in StoredSubs : e.actor_fn = t.coro.fn /\ IsSubstring(t.pattern, e.topic)

(* a yielded Deregister or Unsubscribe leaves every task on the stack, the *)
(* coroutine of the yielding task having advanced by one command           *)
C14_StackKept ==
    ( /\ pc = "running" /\ HasTop /\ Top.kind = "Send"
      /\ NextCmd(Top).cmd \in {"Deregister", "Unsubscribe"} ) =>
        /\ Len(tasks') = Len(tasks)
        /\ \A p \in 1..(Len(tasks) - 1) : Body(tasks'[p]) = Body(tasks[p])
        /\ Body(tasks'[Len(tasks)]) = Body([Top EXCEPT !.coro.pc = @ + 1])

(* a top task whose origin is gone is resumed like any other: it yields its *)
(* next command and stays, or completes, writes Exit and is popped          *)
C14_StillResumed ==
    ( /\ pc = "running" /\ HasTop /\ Top.kind = "Send" /\ OriginGone(Top) ) =>
        IF NextCmd(Top) = NoCmd
        THEN /\ tasks' = SubSeq(tasks, 1, Len(tasks) - 1)
             /\ Len(trace') > Len(trace)
             /\ trace'[Len(trace')].ev = "Exit"
             /\ trace'[Len(trace')].tid = Top.tid
        ELSE /\ Len(tasks') >= Len(tasks)
             /\ Body(tasks'[Len(tasks)]) = Body([Top EXCEPT !.coro.pc = @ + 1])

(* when run() has returned every coroutine that was started has completed *)
C14_AllCompleted ==
    (pc = "returned") =>
        \A i \in 1..Len(trace) :
            (trace[i].ev = "Enter") => \E j \in (i + 1)..Len(trace) : IsExit(j, trace[i].tid)

-----------------------------------------------------------------------------
(* C15 *)

\* C15: priority ordering of fan-out. While the subscription set has not
\* changed during a PublishTask, of two subscriptions it has started a
\* coroutine for, the one with the higher priority was started first.
C15_PriorityOrder ==
    \A p \in 1..Len(tasks) :
        (tasks[p].kind = "Publish" /\ ~tasks[p].dirty) =>
            \A i, j \in 1..Len(tasks[p].emitted) :
                (i < j) => tasks[p].emitted[i].priority >= tasks[p].emitted[j].priority

-----------------------------------------------------------------------------
(* C16 *)

YieldsNext(c) ==
    pc = "running" /\ HasTop /\ Top.kind = "Send" /\ NextCmd(Top).cmd = c

(* no operation changes both maps; an operation on endpoints, called or *)
(* yielded, leaves subscriptions alone, and the other way round         *)
C16_Disjoint ==
    /\ (endpoints' # endpoints \/ lastOp' # lastOp) => subscriptions' = subscriptions
    /\ (subscriptions' # subscriptions \/ lastSub' # lastSub) => endpoints' = endpoints
    /\ (YieldsNext("Register") \/ YieldsNext("Deregister")) => subscriptions' = subscriptions
    /\ (YieldsNext("Subscribe") \/ YieldsNext("Unsubscribe")) => endpoints' = endpoints

(* a Send starts the handler of the endpoint of its topic, or no handler, *)
(* whatever subscriptions holds                                           *)
C16_SendReadsEndpoints ==
    YieldsNext("Send") =>
        IF NextCmd(Top).topic \in DOMAIN endpoints
        THEN /\ Len(tasks') = Len(tasks) + 1
             /\ tasks'[Len(tasks')].coro.fn = endpoints[NextCmd(Top).topic].actor_fn
        ELSE Len(tasks') = Len(tasks)

(* a step on a PublishTask starts the handler of a stored subscription whose *)
(* topic contains the pattern, or no handler, whatever endpoints holds       *)
C16_PublishReadsSubscriptions ==
    (pc = "running" /\ HasTop /\ Top.kind = "Publish") =>
        IF Cardinality(Expected(Top.pattern)) >= Top.idx + 1
        THEN /\ Len(tasks') = Len(tasks) + 1
             /\ \E e \in Expected(Top.pattern) :
                   tasks'[Len(tasks')].coro.fn = e.actor_fn
        ELSE /\ Len(tasks') = Len(tasks) - 1
             /\ trace' = trace

\* C16: endpoints and subscriptions are independent. Register and Deregister
\* never change subscriptions, Subscribe and Unsubscribe never change endpoints,
\* a Send consults endpoints only and a Publish subscriptions only, and one
\* topic may hold an endpoint and subscriptions at once.
C16_Independent ==
    [][C16_Disjoint /\ C16_SendReadsEndpoints /\ C16_PublishReadsSubscriptions]_vars

C16_Witness ==
    /\ pc = "returned"
    /\ TraceIds = <<<<"Enter", "R">>, <<"Enter", "C">>, <<"Exit", "C">>,
                    <<"Enter", "C">>, <<"Exit", "C">>, <<"Exit", "R">>>>
    /\ TB \in DOMAIN endpoints
    /\ pC \in StoredSubs
    /\ Cardinality(StoredSubs) = 1

-----------------------------------------------------------------------------
(* C17 *)

(* a PublishTask is pushed with its cursor at 0 *)
C17_PushedAtZero ==
    /\ YieldsNext("Publish") =>
          /\ Len(tasks') = Len(tasks) + 1
          /\ tasks'[Len(tasks')].kind = "Publish"
          /\ tasks'[Len(tasks')].pattern = NextCmd(Top).pattern
    /\ ( /\ Len(tasks') = Len(tasks) + 1
         /\ tasks'[Len(tasks')].kind = "Publish" ) => tasks'[Len(tasks')].idx = 0

(* the first step on a PublishTask no stored subscription matches pops it, *)
(* and nothing else happens; its publisher is then the top of the stack    *)
C17_NoMatchPops ==
    ( /\ pc = "running" /\ HasTop /\ Top.kind = "Publish" /\ Top.idx = 0
      /\ Expected(Top.pattern) = {} ) =>
        /\ tasks' = SubSeq(tasks, 1, Len(tasks) - 1)
        /\ endpoints' = endpoints
        /\ subscriptions' = subscriptions
        /\ trace' = trace
        /\ IF Top.by = "publish_cmd"
           THEN /\ tasks' # <<>>
                /\ tasks'[Len(tasks')].kind = "Send"
                /\ tasks'[Len(tasks')].tid = Top.parent
                /\ LastCmd(tasks'[Len(tasks')]).cmd = "Publish"
           ELSE tasks' = <<>>

\* C17: a Publish with no matching subscription completes silently. The
\* PublishTask is pushed with idx = 0; the first step on it pops it without
\* starting a handler and leaves the registry and the tasks below unchanged,
\* so that its publisher, if any, is the task resumed next.
C17_EmptyFanOut ==
    [][C17_PushedAtZero /\ C17_NoMatchPops]_vars

C17_Witness ==
    /\ HasTop
    /\ Top.kind = "Send"
    /\ LastCmd(Top) = Publish(TA, 1)
    /\ subscriptions # <<>>
    /\ Expected(TA) = {}
    /\ EntersBy("publish", nextTid - 1) = {}

-----------------------------------------------------------------------------
(* C18 *)

(* the stack after a command that pushes nothing: the yielding coroutine *)
(* has advanced by one command, every other task is as it was            *)
StackKept ==
    /\ Len(tasks') = Len(tasks)
    /\ \A p \in 1..(Len(tasks) - 1) : Body(tasks'[p]) = Body(tasks[p])
    /\ Body(tasks'[Len(tasks)]) = Body([Top EXCEPT !.coro.pc = @ + 1])

(* a yielded Deregister of a topic without endpoint, and a yielded         *)
(* Unsubscribe of a pair without subscription, change nothing; an          *)
(* Unsubscribe keeps every entry of another pair                           *)
C18_YieldedNoOp ==
    /\ ( /\ YieldsNext("Deregister")
         /\ NextCmd(Top).topic \notin DOMAIN endpoints ) =>
            /\ endpoints' = endpoints
            /\ subscriptions' = subscriptions
            /\ StackKept
    /\ ( /\ YieldsNext("Unsubscribe")
         /\ ~\E e \in StoredSubs : Key(e) = <<NextCmd(Top).topic, NextCmd(Top).handler_id>> ) =>
            /\ endpoints' = endpoints
            /\ subscriptions' = subscriptions
            /\ StackKept
    /\ YieldsNext("Unsubscribe") =>
            \A e \in Entries(subscriptions) :
                (Key(e[1]) # <<NextCmd(Top).topic, NextCmd(Top).handler_id>>) =>
                    e \in Entries(subscriptions')

(* the calls on the bus, applied to every registry reached *)
C18_CalledNoOp ==
    /\ \A t \in Topics \ DOMAIN endpoints : deregister(endpoints, t) = endpoints
    /\ \A k \in Keys :
          (~\E e \in StoredSubs : Key(e) = k) =>
              remove_subscription(subscriptions, k[1], k[2]) = subscriptions

\* C18: removing a missing key is a no-op. A Deregister of a topic without
\* endpoint and an Unsubscribe of a (topic, handler_id) without subscription
\* leave endpoints, subscriptions and the task stack as they were, and an
\* Unsubscribe(topic, h1) keeps a subscription (topic, h2).
C18_RemoveMissingNoOp ==
    /\ [][C18_YieldedNoOp]_vars
    /\ []C18_CalledNoOp

C18_Witness ==
    /\ Len(tasks) >= 2
    /\ Top.kind = "Send"
    /\ LastCmd(Top) = Unsubscribe(TBC, "h2")
    /\ Top.effect = "same"
    /\ \E e \in StoredSubs : Key(e) = <<TBC, "h1">>
    /\ TC \in DOMAIN endpoints

-----------------------------------------------------------------------------
(* C19 *)

OtherEndpointsKept(t) ==
    /\ DOMAIN endpoints' \ {t} = DOMAIN endpoints \ {t}
    /\ \A u \in DOMAIN endpoints \ {t} : endpoints'[u] = endpoints[u]

OtherEntriesKept(k) ==
    {e \in Entries(subscriptions') : Key(e[1]) # k}
        = {e \in Entries(subscriptions) : Key(e[1]) # k}

(* what the one command the top coroutine yields does, and nothing more *)
C19_OneCommand ==
    LET c == NextCmd(Top)
        n == Len(tasks)
    IN  CASE c.cmd = "Send" ->
                /\ endpoints' = endpoints /\ subscriptions' = subscriptions
                /\ Len(tasks') = IF c.topic \in DOMAIN endpoints THEN n + 1 ELSE n
                /\ (Len(tasks') = n + 1) =>
                      /\ tasks'[n + 1].kind = "Send"
                      /\ tasks'[n + 1].coro.pc = 0
                      /\ tasks'[n + 1].msg = c.msg
          [] c.cmd = "Publish" ->
                /\ endpoints' = endpoints /\ subscriptions' = subscriptions
                /\ Len(tasks') = n + 1
                /\ tasks'[n + 1].kind = "Publish"
                /\ tasks'[n + 1].pattern = c.pattern
                /\ tasks'[n + 1].msg = c.msg
          [] c.cmd = "Register" ->
                /\ subscriptions' = subscriptions /\ Len(tasks') = n
                /\ c.sub.topic \in DOMAIN endpoints'
                /\ endpoints'[c.sub.topic] = c.sub
                /\ OtherEndpointsKept(c.sub.topic)
          [] c.cmd = "Deregister" ->
                /\ subscriptions' = subscriptions /\ Len(tasks') = n
                /\ c.topic \notin DOMAIN endpoints'
                /\ OtherEndpointsKept(c.topic)
          [] c.cmd = "Subscribe" ->
                /\ endpoints' = endpoints /\ Len(tasks') = n
                /\ \E e \in Entries(subscriptions') : Key(e[1]) = Key(c.sub)
                /\ OtherEntriesKept(Key(c.sub))
          [] c.cmd = "Unsubscribe" ->
                /\ endpoints' = endpoints /\ Len(tasks') = n
                /\ ~\E e \in Entries(subscriptions') : Key(e[1]) = <<c.topic, c.handler_id>>
                /\ OtherEntriesKept(<<c.topic, c.handler_id>>)

(* a step whose top task is a SendTask *)
C19_StepOnSend ==
    (pc = "running" /\ HasTop /\ Top.kind = "Send") =>
        LET n == Len(tasks)
            enter == IF Top.coro.pc = 0 THEN 1 ELSE 0
        IN  IF NextCmd(Top) # NoCmd
            THEN /\ Len(tasks') \in {n, n + 1}
                 /\ \A p \in 1..(n - 1) : Body(tasks'[p]) = Body(tasks[p])
                 /\ Body(tasks'[n]) = Body([Top EXCEPT !.coro.pc = @ + 1])
                 /\ C19_OneCommand
                 /\ Len(trace') = Len(trace) + enter
            ELSE /\ Len(tasks') = n - 1
                 /\ \A p \in 1..(n - 1) : Body(tasks'[p]) = Body(tasks[p])
                 /\ endpoints' = endpoints /\ subscriptions' = subscriptions
                 /\ Len(trace') = Len(trace) + enter + 1
                 /\ trace'[Len(trace')].ev = "Exit"
                 /\ trace'[Len(trace')].tid = Top.tid

(* step called on an empty stack can change neither the stack nor the registry *)
C19_StepOnEmpty ==
    (pc # "running") =>
        /\ tasks = <<>>
        /\ ENABLED CallStep
        /\ ~ENABLED <<CallStep>>_<<endpoints, subscriptions, tasks>>

\* C19: step on a SendTask. One step resumes the top SendTask exactly once: if
\* its coroutine yields, that one command is interpreted and the task stays at
\* its position, a new task going above it; if it completes, that task alone
\* is popped. A step on an empty stack changes neither the stack nor the
\* registry.
C19_StepSendTask ==
    /\ [][C19_StepOnSend]_vars
    /\ []C19_StepOnEmpty

C19_Witness ==
    /\ Len(tasks) >= 2
    /\ Top.kind = "Send"
    /\ Top.coro.pc = 1
    /\ LastCmd(Top).cmd = "Send"
    /\ trace # <<>>
    /\ trace[Len(trace)].ev = "Exit"
    /\ trace[Len(trace)].parent = Top.tid
    /\ tasks[Len(tasks) - 1].kind = "Send"

-----------------------------------------------------------------------------
(* C20 *)

(* the entries of subscriptions that match the pattern now *)
MatchingNow(pattern) ==
    {i \in 1..Len(subscriptions) : IsSubstring(pattern, subscriptions[i][2])}

(* the SendTasks a PublishTask has emitted: those whose coroutine has been *)
(* entered, and the one still waiting on the stack for its first resume    *)
EmittedBy(ptid) ==
    Cardinality(EntersBy("publish", ptid))
        + Cardinality({q \in Children(ptid) : tasks[q].coro.pc = 0})

(* idx is the number of SendTasks emitted so far *)
C20_CursorCounts ==
    \A p \in 1..Len(tasks) :
        (tasks[p].kind = "Publish") => tasks[p].idx = EmittedBy(tasks[p].tid)

(* a new PublishTask has idx 0; a step on a PublishTask emits a SendTask and *)
(* adds one to idx when at least idx + 1 entries match now, and pops the     *)
(* PublishTask otherwise; no other step moves a cursor                       *)
C20_NextTask ==
    LET n == Len(tasks) IN
    /\ ( /\ Len(tasks') > 0
         /\ tasks'[Len(tasks')].kind = "Publish"
         /\ \A p \in 1..n : tasks[p].tid # tasks'[Len(tasks')].tid ) =>
            tasks'[Len(tasks')].idx = 0
    /\ (pc = "running" /\ HasTop /\ Top.kind = "Publish") =>
          IF Cardinality(MatchingNow(Top.pattern)) >= Top.idx + 1
          THEN /\ Len(tasks') = n + 1
               /\ tasks'[n].tid = Top.tid
               /\ tasks'[n].idx = Top.idx + 1
               /\ tasks'[n + 1].kind = "Send"
               /\ tasks'[n + 1].by = "publish"
               /\ tasks'[n + 1].parent = Top.tid
               /\ tasks'[n + 1].coro.pc = 0
          ELSE /\ Len(tasks') = n - 1
               /\ \A p \in 1..(n - 1) : Body(tasks'[p]) = Body(tasks[p])
    /\ \A p \in 1..(n - 1) :
          (tasks[p].kind = "Publish" /\ p <= Len(tasks')) => tasks'[p].idx = tasks[p].idx

\* C20: the cursor of a PublishTask. It starts at 0; a next_task that returns
\* a SendTask adds exactly one to it, so idx is at every moment the number of
\* SendTasks the PublishTask has emitted; next_task returns none exactly when
\* fewer than idx + 1 subscriptions match at that moment, and the PublishTask
\* is then popped.
C20_PublishCursor ==
    /\ []C20_CursorCounts
    /\ [][C20_NextTask]_vars

C20_Witness ==
    /\ HasTop
    /\ Top.kind = "Publish"
    /\ Top.idx = 2
    /\ Top.dirty
    /\ Cardinality(EntersBy("publish", Top.tid)) = 2
    /\ Cardinality(MatchingNow(Top.pattern)) < 3

-----------------------------------------------------------------------------
(* C21 *)

(* expected_trace of test_tree_structure *)
TreeTrace ==
    <<<<"Enter", "A">>, <<"Enter", "B">>, <<"Enter", "D">>, <<"Exit", "D">>,
      <<"Enter", "E">>, <<"Exit", "E">>, <<"Exit", "B">>,
      <<"Enter", "C">>, <<"Exit", "C">>, <<"Exit", "A">>>>

Exited(i) == \E j \in (i + 1)..Len(trace) : IsExit(j, trace[i].tid)

(* with A .. E registered, the run started at A writes the expected trace *)
C21_TreeRun ==
    ( /\ pc = "returned"
      /\ DOMAIN endpoints = TreeTopics
      /\ trace # <<>> /\ trace[1].id = "A" ) => TraceIds = TreeTrace

(* the handlers started by two commands of one handler: the one of the    *)
(* earlier command has exited before the one of the later command enters; *)
(* the first Send of a handler carries message 1 and its second message 2 *)
C21_SiblingsInOrder ==
    \A i, j \in 1..Len(trace) :
        ( /\ i < j
          /\ trace[i].ev = "Enter" /\ trace[i].by = "send"
          /\ trace[j].ev = "Enter" /\ trace[j].by = "send"
          /\ trace[i].parent = trace[j].parent ) =>
            /\ trace[i].msg < trace[j].msg
            /\ \E l \in (i + 1)..(j - 1) : IsExit(l, trace[i].tid)

(* a handler at the top of the stack has seen the whole effect of every   *)
(* command it has yielded; below the top, of all but the last one, whose  *)
(* handler is above it                                                    *)
C21_EffectsComplete ==
    \A p \in 1..Len(tasks) :
        LET T == tasks[p]
            delivered == {k \in 1..T.coro.pc :
                            Program(T.coro.fn)[k].topic \in DOMAIN endpoints}
            kids == EntersBy("send", T.tid)
            over == {i \in kids : Exited(i)}
        IN  IF p = Len(tasks)
            THEN Cardinality(kids) = Cardinality(delivered) /\ over = kids
            ELSE /\ Cardinality(over) = Cardinality(delivered) - 1
                 /\ Cardinality(kids) >= Cardinality(over)
                 /\ tasks[p + 1].parent = T.tid

\* C21: the commands of one handler are interpreted in source order, one per
\* resumption, and the whole effect of a command, the complete run of the
\* task it pushed included, happens before the next one is interpreted. With
\* A yielding Send(b), Send(c) and B yielding Send(d), Send(e) the trace is
\* Enter A, Enter B, Enter D, Exit D, Enter E, Exit E, Exit B, Enter C,
\* Exit C, Exit A.
C21_SourceOrder ==
    /\ C21_TreeRun
    /\ C21_SiblingsInOrder
    /\ C21_EffectsComplete

C21_Witness ==
    /\ pc = "returned"
    /\ DOMAIN endpoints = TreeTopics
    /\ TraceIds = TreeTrace

-----------------------------------------------------------------------------
(* C22 *)

(* a task keeps the message it was created with, and every resumption of a *)
(* coroutine is given that message                                         *)
C22_SameOnEveryResume ==
    \A i, j \in 1..Len(trace) :
        (trace[i].tid = trace[j].tid) => trace[i].msg = trace[j].msg

C22_OnStack ==
    \A p \in 1..Len(tasks) :
        \A i \in 1..Len(trace) :
            (trace[i].tid = tasks[p].tid) => trace[i].msg = tasks[p].msg

(* no step changes the message of a task that stays on the stack; a task   *)
(* pushed for a Send or a Publish command has the message of the command,  *)
(* a task pushed by a PublishTask the message of the PublishTask           *)
C22_Bound ==
    LET n == Len(tasks) IN
    /\ \A p \in 1..n : (p <= Len(tasks')) => tasks'[p].msg = tasks[p].msg
    /\ (YieldsNext("Send") /\ Len(tasks') = n + 1) =>
          tasks'[n + 1].msg = NextCmd(Top).msg
    /\ YieldsNext("Publish") =>
          tasks'[n + 1].msg = NextCmd(Top).msg
    /\ (pc = "running" /\ HasTop /\ Top.kind = "Publish" /\ Len(tasks') = n + 1) =>
          tasks'[n + 1].msg = Top.msg

\* C22: message binding. A SendTask is resumed with the message it was
\* created with on every resumption; the SendTask of a yielded Send carries
\* the message of the Send, not the sender's, every SendTask a PublishTask
\* creates carries the Publish's message, and running the callee does not
\* change the message the sender is resumed with afterwards.
C22_MessageBinding ==
    /\ [](C22_SameOnEveryResume /\ C22_OnStack)
    /\ [][C22_Bound]_vars

C22_Witness ==
    /\ pc = "returned"
    /\ TraceIds = ChainTrace
    /\ trace[1].msg = 1
    /\ trace[2].msg = 2
    /\ trace[3].msg = 1
    /\ trace[5].msg = 2
    /\ trace[6].msg = 1

-----------------------------------------------------------------------------
(* C23 *)

(* a PublishTask has started at most one coroutine per (topic, handler_id) *)
C23_NoDoubleDelivery ==
    \A p \in 1..Len(tasks) :
        (tasks[p].kind = "Publish") =>
            \A i, j \in 1..Len(tasks[p].emitted) :
                (i # j) => Key(tasks[p].emitted[i]) # Key(tasks[p].emitted[j])

(* a PublishTask about to be popped has started a coroutine for every   *)
(* matching subscription that was stored all the time since its push    *)
C23_StableDelivered ==
    (HasTop /\ Top.kind = "Publish" /\ Exhausted(Top)) =>
        \A s \in Top.stable :
            IsSubstring(Top.pattern, s.topic) =>
                Cardinality({i \in 1..Len(Top.emitted) : Top.emitted[i] = s}) = 1

\* C23: fan-out under registry mutation. Within the lifetime of one
\* PublishTask, also when the handlers it starts yield Subscribe or
\* Unsubscribe for other matching subscriptions, no subscription is delivered
\* to twice, and every matching subscription that stays stored from the push
\* of the PublishTask to its pop is delivered to exactly once.
C23_FanOutUnderMutation ==
    C23_NoDoubleDelivery /\ C23_StableDelivered

-----------------------------------------------------------------------------
(* C24 *)

(* one step of the run loop: the height changes by at most one, the tasks *)
(* below the top are as they were, the top keeps its position unless it   *)
(* is popped, and only the top task's coroutine writes to the trace       *)
C24_Step ==
    (pc = "running" /\ HasTop) =>
        LET n == Len(tasks) IN
        /\ Len(tasks') \in {n - 1, n, n + 1}
        /\ \A p \in 1..(n - 1) : Body(tasks'[p]) = Body(tasks[p])
        /\ (Len(tasks') >= n) =>
              /\ tasks'[n].tid = Top.tid
              /\ tasks'[n].kind = Top.kind
        /\ (Len(tasks') = n + 1) =>
              \A p \in 1..n : tasks[p].tid # tasks'[n + 1].tid
        /\ Len(trace') >= Len(trace)
        /\ SubSeq(trace', 1, Len(trace)) = trace
        /\ \A i \in (Len(trace) + 1)..Len(trace') :
              trace'[i].tid = Top.tid /\ Top.kind = "Send"

\* C24: stack discipline of step. Every step changes the height of the stack
\* by -1, 0 or +1 and touches only the top task: the tasks below keep their
\* position, their coroutine state and their idx, and no task is resumed or
\* advanced while another task lies above it.
C24_StackDiscipline ==
    [][C24_Step]_vars

C24_Witness ==
    /\ Len(tasks) = 3
    /\ tasks[1].kind = "Publish"
    /\ tasks[1].idx = 2
    /\ tasks[2].kind = "Send"
    /\ tasks[2].coro.pc = 1
    /\ Top.kind = "Send"
    /\ Top.parent = tasks[2].tid
    /\ Len(trace) >= 3

====
